---- MODULE Spec2Model ----
(***************************************************************************)
(* Wildberries MCP server: the WBClient acquisition engine (wb-client.js)  *)
(* and the JSON-RPC protocol layer of the HTTP server (http-server.js).    *)
(*                                                                         *)
(* Every `await` of the source is a scheduling point: a handler's pc names *)
(* the promise it is suspended on and one action resumes it and runs the   *)
(* synchronous code up to the next await.  Answers of the browser and of   *)
(* the remote endpoints are chosen by the environment when a promise       *)
(* settles.                                                                *)
(***************************************************************************)
EXTENDS Integers, Sequences, FiniteSets, TLC

\* ---------------------------------------------------------------- bounds
MaxBatch  == 2      \* entries of a batched POST body
MaxCards  == 2      \* .product-card elements a rendered page holds
MaxLaunch == 2      \* browser launches observed in one run
MaxIds    == 2      \* length of a productIds argument
MaxZones  == 2      \* length of a geo candidate list
MaxMint   == 2      \* session identifiers minted in one run
MaxStreams == 2     \* GET /mcp requests that open a push channel in one run
MaxFrames == 3      \* keepalive frames written to one channel

\* ------------------------------------------------------ program constants
DefaultLimit == 20          \* `args.limit || 20`
LimitCap     == 100         \* Math.min(..., 100)
NumBaskets   == 36          \* for (let b = 1; b <= 36; b++)
DefaultDest  == "-1255987"  \* this.dest in the constructor
InternalError  == -32603
MethodNotFound == -32601

Handlers == {"h1", "h2"}    \* POST handlers that may be in flight together

\* ------------------------------------------------------------ input sets
Methods == {"initialize", "tools/list", "tools/call",
            "notifications/initialized", "resources/list"}
ToolNames == {"wb_search", "wb_product_details", "wb_products_list",
              "wb_set_destination", "wb_get_filters"}
LimitValues == {0, -1, 1, 150}       \* requested limits (absent: no field)
ProductIds  == {7, 123456}
Zones       == {-1255987, 77}        \* numeric zone codes of the geo service
DomPrices   == {0, 7}                \* 0: the card shows no parsable price
Kopeks      == {0, 1250}             \* 0: the descriptor carries no price

\* null of the source, for the object references and the responses
Null == [null |-> TRUE]

RECURSIVE SeqsUpTo(_, _)
SeqsUpTo(S, n) ==
    IF n = 0 THEN {<<>>}
    ELSE LET shorter == SeqsUpTo(S, n - 1)
         IN  shorter \cup {Append(s, x) : s \in {t \in shorter : Len(t) = n - 1}, x \in S}

Min(a, b) == IF a < b THEN a ELSE b
Max(a, b) == IF a > b THEN a ELSE b


\* ------------------------------------------------------------- variables
VARIABLES
    \* WBClient fields (wb-client.js constructor); 0 is null
    browser, context, page, isInitialized, dest,
    \* the environment: browser processes alive, launches so far, and the
    \* document each page shows (a page carries the number of its browser)
    running, nLaunched, doc,
    \* http-server.js module state
    sessions, nMinted,
    \* what app.delete last sent back, what app.get last sent back, and the
    \* push channels: connection, interval timer, frames written
    term, getReply, streams,
    \* one POST handler: its position, the request body, the session header,
    \* the loop index, the responses array and the settled value of the
    \* handleJsonRpcRequest promise it awaits
    pc, requests, sessionId, idx, responses, response,
    \* what the handler last sent back: status, body, Mcp-Session-Id header
    reply,
    \* locals of the tool call a handler is running
    call,
    \* the close() in flight, if any: its position, the browser whose
    \* close() it awaits, who called it, and the calls made so far
    closer,
    \* process.exit(0) was called
    exited

clientVars == <<browser, context, page, isInitialized, dest>>
envVars    == <<running, nLaunched, doc>>
procVars   == <<closer, exited>>
sessVars   == <<sessions, nMinted, term, getReply, streams, procVars>>
postVars   == <<requests, sessionId, idx, responses, response, reply>>
vars == <<browser, context, page, isInitialized, dest, running, nLaunched, doc,
          sessions, nMinted, term, getReply, streams, pc, requests, sessionId, idx, responses, response,
          reply, call, closer, exited>>

NoArgs == [fields |-> {}, limit |-> 0, productId |-> 0, productIds |-> <<>>]
NoUrl  == [endpoint |-> "none"]

\* locals of a tool call before anything ran
NoCall ==
    [ hasParams |-> FALSE, name |-> "", hasArgs |-> FALSE, args |-> NoArgs,
      fn |-> "none",          \* WBClient method the dispatcher invoked
      caller |-> "none",      \* who awaits init() / apiRequest()
      limit |-> 0,            \* options.limit handed to search
      products |-> <<>>,      \* search: the extracted cards
      b |-> 0,                \* getProductDetails: basket number
      waited |-> "none",      \* waitForSelector: "found", "timeout", "closed", "null"
      detailData |-> Null, cardData |-> Null,
      data |-> Null,          \* apiData / data / geoData: what apiRequest gave
      url |-> NoUrl,          \* the request apiRequest was last given
      nFetch |-> 0,           \* apiRequest calls of this tool call
      got |-> "none",         \* how the last fetch settled: "json" or "error"
      failed |-> FALSE,       \* a price/stock descriptor fetch of this call rejected
      mine |-> 0,             \* init: the browser this call launched
      tgt |-> 0,              \* the page the pending page.* call was made on
      result |-> Null, error |-> "" ]

\* no close() is in flight
NoCloser == [pc |-> "idle", tgt |-> 0, by |-> "none", n |-> 0]

\* a push channel that no GET has opened yet
NoStream == [conn |-> "none", timer |-> FALSE, frames |-> 0]

Init ==
    /\ browser = 0 /\ context = 0 /\ page = 0
    /\ isInitialized = FALSE
    /\ dest = DefaultDest
    /\ running = {} /\ nLaunched = 0
    /\ doc = [n \in 1..MaxLaunch |-> "none"]
    /\ sessions = {} /\ nMinted = 0
    /\ term = Null /\ getReply = Null
    /\ streams = [n \in 1..MaxStreams |-> NoStream]
    /\ pc = [p \in Handlers |-> "idle"]
    /\ requests = [p \in Handlers |-> <<>>]
    /\ sessionId = [p \in Handlers |-> 0]
    /\ idx = [p \in Handlers |-> 0]
    /\ responses = [p \in Handlers |-> <<>>]
    /\ response = [p \in Handlers |-> Null]
    /\ reply = [p \in Handlers |-> Null]
    /\ call = [p \in Handlers |-> NoCall]
    /\ closer = NoCloser
    /\ exited = FALSE

\* ------------------------------------------- exits of the WBClient methods
\* `return v` of the method the dispatcher awaits
Return(p, c, v) ==
    /\ pc' = [pc EXCEPT ![p] = "returned"]
    /\ call' = [call EXCEPT ![p] = [c EXCEPT !.result = v]]

\* an exception that leaves the method
Throw(p, c, msg) ==
    /\ pc' = [pc EXCEPT ![p] = "threw"]
    /\ call' = [call EXCEPT ![p] = [c EXCEPT !.error = msg]]

Goto(p, c, label) ==
    /\ pc' = [pc EXCEPT ![p] = label]
    /\ call' = [call EXCEPT ![p] = c]


\* ------------------------------------------------------- values and URLs
\* a JS number k / 100 as a decimal: whole part and hundredths
Rub(k) == [units |-> k \div 100, cents |-> k % 100]

\* `x ? x / 100 : null` of the descriptor prices (kopeks)
PriceOf(k) == IF k # 0 THEN Rub(k) ELSE Null

\* priceNum of a card: the parsed integer, else null
DomPrice(n) == IF n # 0 THEN [units |-> n, cents |-> 0] ELSE Null

\* the percentage cut off instead of rounded
DiscountTruncates(basic, final) == (100 * (basic - final)) \div basic

\* Math.round((1 - priceFinal / priceBasic) * 100), on the kopek values:
\* Math.round(x) is floor(x + 1/2)
Discount(basic, final) == (200 * (basic - final) + basic) \div (2 * basic)

\* b.toString() without the padding
Unpadded(n) == ToString(n)

\* b.toString().padStart(2, '0'), line 246
Pad2(n) == IF n < 10 THEN "0" \o ToString(n) ELSE ToString(n)

\* Array.prototype.join(';') over ids
RECURSIVE JoinIds(_)
JoinIds(ids) ==
    IF Len(ids) = 0 THEN ""
    ELSE IF Len(ids) = 1 THEN ToString(ids[1])
    ELSE ToString(ids[1]) \o ";" \o JoinIds(Tail(ids))

\* Array.prototype.slice(0, n)
Slice(s, n) ==
    LET end == IF n < 0 THEN Max(Len(s) + n, 0) ELSE Min(n, Len(s))
    IN  SubSeq(s, 1, end)

\* Math.min(args.limit || 20, 100); an absent limit and 0 are both falsy
EffectiveLimit(args) ==
    Min(IF "limit" \in args.fields /\ args.limit # 0 THEN args.limit ELSE DefaultLimit,
        LimitCap)

\* a URL that always names the default zone
DescriptorDestDefault == DefaultDest

\* `${this.dest}` in a price/stock descriptor URL
DescriptorDest == dest

ListUrl(ids)   == [endpoint |-> "list", dest |-> DescriptorDest, nm |-> JoinIds(ids)]
DetailUrl(nm)  == [endpoint |-> "detail", dest |-> DescriptorDest, nm |-> nm]
GeoUrl         == [endpoint |-> "geo"]
CardUrl(bn, id, known) ==
    [ endpoint |-> "card", basket |-> Pad2(bn),
      vol  |-> IF known THEN ToString(id \div 100000) ELSE "NaN",
      part |-> IF known THEN ToString(id \div 1000) ELSE "NaN",
      nm   |-> IF known THEN ToString(id) ELSE "undefined" ]

\* ------------------------------------------------------ search: the cards
\* one extracted card; the fields the claims do not read (url, name, brand,
\* image) are left out and priceFormatted is a function of price
Card(id, n) == [id |-> id, price |-> DomPrice(n)]

\* products.filter(p => !p.price && p.id)
productsWithoutPrice(products) ==
    SelectSeq(products, LAMBDA q : q.price = Null /\ q.id # 0)

IdOf(q) == q.id

\* priceMap[p.id] = price / 100 for the entries with a truthy price; a later
\* entry of the same id overwrites an earlier one
priceMap(entries) ==
    LET priced == {i \in 1..Len(entries) : entries[i].product # 0}
        last(id) == CHOOSE i \in priced : entries[i].id = id /\
                        \A j \in priced : entries[j].id = id => j <= i
    IN  [id \in {entries[i].id : i \in priced} |-> Rub(entries[last(id)].product)]

\* the merge without its `!product.price` test
MergePricesOverwrites(products, map) ==
    [i \in 1..Len(products) |->
        IF products[i].id \in DOMAIN map
        THEN [products[i] EXCEPT !.price = map[products[i].id]]
        ELSE products[i]]

\* `if (!product.price && priceMap[product.id]) product.price = ...`
MergePrices(products, map) ==
    [i \in 1..Len(products) |->
        IF products[i].price = Null /\ products[i].id \in DOMAIN map
        THEN [products[i] EXCEPT !.price = map[products[i].id]]
        ELSE products[i]]

SearchResult(products) == [kind |-> "products", products |-> products]


\* ------------------------------------------------- answers of the endpoints
\* a price/stock entry: id and sizes[0].price.{basic, product} in kopeks
Entries == [id : {1, 2}, basic : {0}, product : Kopeks]
Items   == [id : {0}, basic : Kopeks \cup {2500}, product : Kopeks]

\* basic and product price of the item of a detail descriptor, in kopeks:
\* absent ones, a half, a tie at 0.5 %, a third of a percent, a markup
PricePairs == {<<0, 0>>, <<0, 1250>>, <<1250, 0>>, <<2500, 1250>>,
               <<200, 199>>, <<300, 299>>, <<1250, 2500>>}
DetailItems == {[id |-> 0, basic |-> q[1], product |-> q[2]] : q \in PricePairs}

\* the JSON value a descriptor fetch resolves to: null, or an object; has:
\* it has a products key
BackfillAnswers == {Null, [has |-> FALSE, products |-> <<>>]} \cup
                   [has : {TRUE}, products : SeqsUpTo(Entries, MaxCards)]
ListAnswers     == {Null, [has |-> FALSE, products |-> <<>>]} \cup
                   [has : {TRUE}, products : SeqsUpTo(Items, MaxIds)]
DetailAnswers   == {Null, [has |-> FALSE, products |-> <<>>]} \cup
                   [has : {TRUE}, products : SeqsUpTo(DetailItems, 1)]
\* card.json: null, or an object with a description and maybe options
CardAnswers     == {Null} \cup
                   [description : {"", "text"}, hasOptions : BOOLEAN,
                    options : {<<>>, <<[name |-> "n", value |-> "v"]>>}]
\* get-geo-info: null, or an object; has: it has a destinations key
GeoAnswers      == {Null, [has |-> FALSE, destinations |-> <<>>, address |-> "addr"]} \cup
                   [has : {TRUE}, destinations : SeqsUpTo(Zones, MaxZones),
                    address : {"addr"}]

\* what the pages and the endpoints may answer in a run
\* the cards a rendered page may hold: data-nm-id (0: none) and parsed price
CardLists == SeqsUpTo([id : {0, 1, 2}, price : DomPrices], MaxCards)
\* the texts of the filter buttons of a page
FilterLists == SeqsUpTo({"brand", "color"}, 2)
\* rejects: whether launch, page.goto and a fetch may reject
FullEnv == [ backfill |-> BackfillAnswers, list |-> ListAnswers,
             detail |-> DetailAnswers, card |-> CardAnswers, geo |-> GeoAnswers,
             cards |-> CardLists, filters |-> FilterLists, rejects |-> BOOLEAN ]

\* one answer per branch of the code that reads it
SmallEnv ==
    [ backfill |-> {[has |-> FALSE, products |-> <<>>],
                    [has |-> TRUE, products |-> <<[id |-> 1, basic |-> 0, product |-> 1250]>>]},
      list     |-> {[has |-> FALSE, products |-> <<>>],
                    [has |-> TRUE, products |-> <<[id |-> 0, basic |-> 2500, product |-> 1250]>>]},
      detail   |-> {[has |-> TRUE, products |-> <<>>],
                    [has |-> TRUE, products |-> <<[id |-> 0, basic |-> 2500, product |-> 1250]>>]},
      card     |-> {Null, [description |-> "text", hasOptions |-> FALSE, options |-> <<>>]},
      geo      |-> {[has |-> TRUE, destinations |-> <<>>, address |-> "addr"],
                    [has |-> TRUE, destinations |-> <<-1255987, 77>>, address |-> "addr"]},
      cards    |-> {<<>>, <<[id |-> 1, price |-> 7]>>, <<[id |-> 1, price |-> 0]>>},
      filters  |-> {<<"brand">>},
      rejects  |-> BOOLEAN ]

Answers(E, caller) ==
    CASE caller = "geo"      -> E.geo
      [] caller = "basket"   -> E.card
      [] caller = "detail"   -> E.detail
      [] caller = "backfill" -> E.backfill
      [] caller = "list"     -> E.list

\* ------------------------------------------------------ getProductDetails
\* lines 255-310: the not-found check and the detail record
DetailRecord(c) ==
    LET item == c.detailData.products[1]
        card == c.cardData
    IN  [ kind |-> "detail",
          priceBasic |-> PriceOf(item.basic),
          priceFinal |-> PriceOf(item.product),
          discount |-> IF item.basic # 0 /\ item.product # 0
                       THEN [value |-> Discount(item.basic, item.product)]
                       ELSE Null,
          description |-> IF card = Null \/ card.description = ""
                          THEN Null ELSE [text |-> card.description],
          characteristics |-> IF card = Null \/ ~card.hasOptions
                              THEN <<>> ELSE card.options ]

HasProduct(c) == c.detailData # Null /\ c.detailData.has /\ Len(c.detailData.products) > 0

\* a missing content descriptor fails the call too
AssembleNeedsCard(p, c) ==
    IF HasProduct(c) /\ c.cardData # Null THEN Return(p, c, DetailRecord(c))
    ELSE Throw(p, c, "Product not found")

Assemble(p, c) ==
    IF HasProduct(c) THEN Return(p, c, DetailRecord(c))
    ELSE Throw(p, c, "Product not found")

\* apiRequest(url) is entered: its first statement awaits init()
StartApi(p, c, who, url) ==
    Goto(p, [c EXCEPT !.caller = who, !.url = url], "init")

\* one turn of the basket loop, lines 244-253
Probe(p, c, bn) ==
    IF bn <= NumBaskets
    THEN StartApi(p, [c EXCEPT !.b = bn], "basket",
                  CardUrl(bn, c.args.productId, "productId" \in c.args.fields))
    ELSE Assemble(p, [c EXCEPT !.b = bn])

\* ---------------------------------------------------------- getProductsList
ListRecord(item) == [ priceBasic |-> PriceOf(item.basic),
                      priceFinal |-> PriceOf(item.product) ]
ListResult(data) == [ kind |-> "list",
                      items |-> IF data.has
                                THEN [i \in 1..Len(data.products) |->
                                         ListRecord(data.products[i])]
                                ELSE <<>> ]

\* ----------------------------------------------------------- setDestination
\* line 353; on null the property read throws into the catch of line 363
GeoFound(data) == data # Null /\ data.has /\ Len(data.destinations) > 0
\* the first candidate instead of the last
FirstZone(data) == ToString(data.destinations[1])
\* geoData.destinations[geoData.destinations.length - 1].toString()
LastZone(data) == ToString(data.destinations[Len(data.destinations)])
DestFailure == [kind |-> "destination", success |-> FALSE,
                error |-> "Could not find destination"]
DestSuccess(data) ==
    [kind |-> "destination", success |-> TRUE, address |-> data.address,
     dest |-> LastZone(data), destinations |-> data.destinations]

\* ------------------------------------------------ apiRequest: how it ends
\* apiRequest resolved with data: the code after the caller's await
ApiReturns(p, c, data) ==
    CASE c.caller = "backfill" ->
            /\ Return(p, [c EXCEPT !.data = data], SearchResult(
                   IF data # Null /\ data.has
                   THEN MergePrices(c.products, priceMap(data.products))
                   ELSE c.products))
            /\ dest' = dest
      [] c.caller = "detail" ->
            /\ Probe(p, [c EXCEPT !.detailData = data], 1)
            /\ dest' = dest
      [] c.caller = "basket" ->
            /\ IF data # Null THEN Assemble(p, [c EXCEPT !.cardData = data])
               ELSE Probe(p, c, c.b + 1)
            /\ dest' = dest
      [] c.caller = "list" ->
            /\ IF data = Null
               THEN Throw(p, c, "Cannot read properties of null")
               ELSE Return(p, [c EXCEPT !.data = data], ListResult(data))
            /\ dest' = dest
      [] c.caller = "geo" ->
            IF GeoFound(data)
            THEN /\ dest' = LastZone(data)
                 /\ Return(p, [c EXCEPT !.data = data], DestSuccess(data))
            ELSE /\ dest' = dest
                 /\ Return(p, [c EXCEPT !.data = data], DestFailure)

\* apiRequest rejected (init() threw, or the fetch did): the caller's catch
ApiThrows(p, c, msg) ==
    CASE c.caller = "backfill" -> Return(p, c, SearchResult(c.products))
      [] c.caller = "detail"   -> Probe(p, c, 1)
      [] c.caller = "basket"   -> Probe(p, c, c.b + 1)
      [] c.caller = "list"     -> Throw(p, c, msg)
      [] c.caller = "geo"      -> Return(p, c, DestFailure)

\* the callers that fetch a price/stock descriptor (list or detail URL)
Descriptors == {"backfill", "detail", "list"}
ApiCallers == {"backfill", "detail", "basket", "list", "geo"}

\* init() rejected: apiRequest passes it on, a tool method lets it escape
InitThrows(p, c, msg) ==
    IF c.caller \in ApiCallers THEN ApiThrows(p, c, msg) ELSE Throw(p, c, msg)


\* ================================================================ WBClient
\* a browser whose close() has resolved: every call pending on it, on its
\* context or on its page rejects
Closed(n) == n \notin running

\* ------------------------------------------------------------------ init()
\* init() without its guard
InitEnterAlways(p) ==
    /\ pc[p] = "init"
    /\ nLaunched < MaxLaunch
    /\ pc' = [pc EXCEPT ![p] = "launch"]
    /\ UNCHANGED <<clientVars, envVars, sessVars, postVars, call>>

\* line 20: the guard, and chromium.launch() is called
InitEnter(p) ==
    /\ pc[p] = "init"
    /\ IF isInitialized
       THEN pc' = [pc EXCEPT ![p] = "ready"]
       ELSE /\ nLaunched < MaxLaunch
            /\ pc' = [pc EXCEPT ![p] = "launch"]
    /\ UNCHANGED <<clientVars, envVars, sessVars, postVars, call>>

\* line 22: launch settled; on success this.browser is set and
\* this.browser.newContext() is called
InitLaunched(p, E) ==
    /\ pc[p] = "launch"
    /\ \E rejected \in E.rejects :
          IF rejected
          THEN /\ InitThrows(p, call[p], "launch failed")
               /\ UNCHANGED <<clientVars, envVars>>
          ELSE /\ nLaunched < MaxLaunch
               /\ nLaunched' = nLaunched + 1
               /\ running' = running \cup {nLaunched + 1}
               /\ browser' = nLaunched + 1
               /\ Goto(p, [call[p] EXCEPT !.mine = nLaunched + 1], "newContext")
               /\ UNCHANGED <<context, page, isInitialized, dest, doc>>
    /\ UNCHANGED <<sessVars, postVars>>

\* line 32: this.context is set and this.context.newPage() is called
InitContext(p) ==
    /\ pc[p] = "newContext"
    /\ IF Closed(call[p].mine)
       THEN /\ InitThrows(p, call[p], "Target page, context or browser has been closed")
            /\ context' = context
       ELSE /\ context' = call[p].mine
            /\ pc' = [pc EXCEPT ![p] = "newPage"]
            /\ call' = call
    /\ UNCHANGED <<browser, page, isInitialized, dest, envVars, sessVars, postVars>>

\* line 39: this.page is set and this.page.addInitScript() is called
InitPage(p) ==
    /\ pc[p] = "newPage"
    /\ IF Closed(call[p].mine)
       THEN /\ InitThrows(p, call[p], "Target page, context or browser has been closed")
            /\ UNCHANGED <<page, doc>>
       ELSE /\ page' = call[p].mine
            /\ doc' = [doc EXCEPT ![call[p].mine] = "blank"]
            /\ pc' = [pc EXCEPT ![p] = "addInitScript"]
            /\ call' = call
    /\ UNCHANGED <<browser, context, isInitialized, dest, running, nLaunched,
                   sessVars, postVars>>

\* line 48: the warm-up this.page.goto() is called, on the page held now
InitScript(p) ==
    /\ pc[p] = "addInitScript"
    /\ IF Closed(call[p].mine)
       THEN InitThrows(p, call[p], "Target page, context or browser has been closed")
       ELSE IF page = 0
       THEN InitThrows(p, call[p], "Cannot read properties of null")
       ELSE Goto(p, [call[p] EXCEPT !.tgt = page], "warmup")
    /\ UNCHANGED <<clientVars, envVars, sessVars, postVars>>

\* lines 48-52: the warm-up navigation settled; on success the 5 s timer starts
InitWarm(p, E) ==
    /\ pc[p] = "warmup"
    /\ \E rejected \in E.rejects :
          IF rejected \/ Closed(call[p].tgt)
          THEN /\ InitThrows(p, call[p], "navigation failed")
               /\ UNCHANGED <<clientVars, envVars>>
          ELSE /\ doc' = [doc EXCEPT ![call[p].tgt] = "home"]
               /\ pc' = [pc EXCEPT ![p] = "init_settle"]
               /\ UNCHANGED <<clientVars, running, nLaunched, call>>
    /\ UNCHANGED <<sessVars, postVars>>

\* line 54
InitSettled(p) ==
    /\ pc[p] = "init_settle"
    /\ isInitialized' = TRUE
    /\ pc' = [pc EXCEPT ![p] = "ready"]
    /\ UNCHANGED <<browser, context, page, dest, envVars, sessVars, postVars, call>>

\* ------------------------------------------------------------ apiRequest()
\* lines 77-82: after `await this.init()`, page.evaluate(fetch) is called
ApiFetch(p) ==
    /\ pc[p] = "ready"
    /\ call[p].caller \in ApiCallers
    /\ IF page = 0
       THEN ApiThrows(p, [call[p] EXCEPT !.nFetch = @ + 1, !.got = "error",
                                         !.failed = @ \/ call[p].caller \in Descriptors],
                      "Cannot read properties of null")
       ELSE Goto(p, [call[p] EXCEPT !.tgt = page, !.nFetch = @ + 1], "fetch")
    /\ UNCHANGED <<clientVars, envVars, sessVars, postVars>>

\* the fetch settled: a JSON answer, or `HTTP status` / a network error
ApiSettled(p, E) ==
    /\ pc[p] = "fetch"
    /\ \/ /\ ~Closed(call[p].tgt)
          /\ \E data \in Answers(E, call[p].caller) :
                 ApiReturns(p, [call[p] EXCEPT !.got = "json"], data)
       \/ /\ TRUE \in E.rejects \/ Closed(call[p].tgt)
          /\ ApiThrows(p, [call[p] EXCEPT !.got = "error",
                                          !.failed = @ \/ call[p].caller \in Descriptors],
                       "HTTP error")
          /\ dest' = dest
    /\ UNCHANGED <<browser, context, page, isInitialized, envVars, sessVars, postVars>>


\* ----------------------------------------------------------------- close()
\* close() calls the model follows
MaxClose == 2

\* what follows `await wbClient.close()`: a signal handler calls
\* process.exit(0), which ends every handler where it stands; any other
\* caller goes on
AfterClose(who) ==
    IF who = "signal"
    THEN exited' = TRUE /\ pc' = [p \in Handlers |-> "exited"]
    ELSE exited' = exited /\ pc' = pc

\* lines 61-63: without a browser close() is over at once; with one,
\* this.browser.close() is called and awaited
CloseEnter(who) ==
    /\ closer.pc = "idle" /\ ~exited
    /\ closer.n < MaxClose
    /\ IF browser # 0
       THEN /\ closer' = [pc |-> "closing", tgt |-> browser, by |-> who, n |-> closer.n + 1]
            /\ exited' = exited /\ pc' = pc
       ELSE /\ closer' = [pc |-> "idle", tgt |-> 0, by |-> who, n |-> closer.n + 1]
            /\ AfterClose(who)
    /\ UNCHANGED <<clientVars, envVars, sessions, nMinted, term, getReply, streams,
                   postVars, call>>

\* close() that leaves this.page and isInitialized as they are
CloseDoneKeepsPage ==
    /\ closer.pc = "closing"
    /\ running' = running \ {closer.tgt}
    /\ browser' = 0 /\ context' = 0
    /\ closer' = [closer EXCEPT !.pc = "idle"]
    /\ AfterClose(closer.by)
    /\ UNCHANGED <<page, isInitialized, dest, nLaunched, doc, sessions, nMinted, term,
                   getReply, streams, postVars, call>>

\* close() that puts the default zone back
CloseDoneResetsDest ==
    /\ closer.pc = "closing"
    /\ running' = running \ {closer.tgt}
    /\ browser' = 0 /\ context' = 0 /\ page' = 0
    /\ isInitialized' = FALSE
    /\ dest' = DefaultDest
    /\ closer' = [closer EXCEPT !.pc = "idle"]
    /\ AfterClose(closer.by)
    /\ UNCHANGED <<nLaunched, doc, sessions, nMinted, term, getReply, streams,
                   postVars, call>>

\* lines 63-67: browser.close() resolved; the fields are reset
CloseDone ==
    /\ closer.pc = "closing"
    /\ running' = running \ {closer.tgt}
    /\ browser' = 0 /\ context' = 0 /\ page' = 0
    /\ isInitialized' = FALSE
    /\ closer' = [closer EXCEPT !.pc = "idle"]
    /\ AfterClose(closer.by)
    /\ UNCHANGED <<dest, nLaunched, doc, sessions, nMinted, term, getReply, streams,
                   postVars, call>>

\* ---------------------------------------------------------------- search()
ToProduct(card) == Card(card.id, card.price)

\* line 122: after `await this.init()`, page.goto(url) is called
SearchNavigate(p) ==
    /\ pc[p] = "ready"
    /\ call[p].caller = "search"
    /\ IF page = 0
       THEN Throw(p, call[p], "Cannot read properties of null")
       ELSE Goto(p, [call[p] EXCEPT !.tgt = page], "search_goto")
    /\ UNCHANGED <<clientVars, envVars, sessVars, postVars>>

\* lines 122-129: the navigation settled; waitForSelector is called
SearchLoaded(p, E) ==
    /\ pc[p] = "search_goto"
    /\ \E rejected \in E.rejects :
          IF rejected \/ Closed(call[p].tgt)
          THEN /\ Throw(p, call[p], "navigation failed")
               /\ doc' = doc
          ELSE /\ doc' = [doc EXCEPT ![call[p].tgt] = "results"]
               /\ IF page = 0
                  THEN Return(p, [call[p] EXCEPT !.waited = "null"], SearchResult(<<>>))
                  ELSE Goto(p, [call[p] EXCEPT !.tgt = page], "search_wait")
    /\ UNCHANGED <<clientVars, running, nLaunched, sessVars, postVars>>

\* the timeout of the wait is passed on to the caller
SearchWaitedThrows(p) ==
    /\ pc[p] = "search_wait"
    /\ \/ Goto(p, [call[p] EXCEPT !.waited = "found"], "search_settle")
       \/ Throw(p, [call[p] EXCEPT !.waited = "timeout"], "Timeout 30000ms exceeded")
    /\ UNCHANGED <<clientVars, envVars, sessVars, postVars>>

\* lines 128-135: a card showed up and the 3 s timer starts, or the wait
\* timed out and search returns []
SearchWaited(p) ==
    /\ pc[p] = "search_wait"
    /\ IF Closed(call[p].tgt)
       THEN Return(p, [call[p] EXCEPT !.waited = "closed"], SearchResult(<<>>))
       ELSE \/ Goto(p, [call[p] EXCEPT !.waited = "found"], "search_settle")
            \/ Return(p, [call[p] EXCEPT !.waited = "timeout"], SearchResult(<<>>))
    /\ UNCHANGED <<clientVars, envVars, sessVars, postVars>>

\* line 138: the timer fired; page.evaluate(extract, limit) is called
SearchSettled(p) ==
    /\ pc[p] = "search_settle"
    /\ IF page = 0
       THEN Throw(p, call[p], "Cannot read properties of null")
       ELSE Goto(p, [call[p] EXCEPT !.tgt = page], "search_extract")
    /\ UNCHANGED <<clientVars, envVars, sessVars, postVars>>

\* lines 138-191 and 215-216: the cards of the document are sliced and
\* mapped; with unpriced cards the backfill request is built and apiRequest
\* entered, else search returns
SearchExtracted(p, E) ==
    /\ pc[p] = "search_extract"
    /\ \E cards \in E.cards :
          IF Closed(call[p].tgt)
          THEN Throw(p, call[p], "Target page, context or browser has been closed")
          ELSE
          LET shown    == Slice(cards, call[p].limit)
              products == [i \in 1..Len(shown) |-> ToProduct(shown[i])]
              without  == productsWithoutPrice(products)
              c        == [call[p] EXCEPT !.products = products]
          IN  IF Len(without) > 0
              THEN StartApi(p, c, "backfill", ListUrl([i \in 1..Len(without) |-> IdOf(without[i])]))
              ELSE Return(p, c, SearchResult(products))
    /\ UNCHANGED <<clientVars, envVars, sessVars, postVars>>

\* ------------------------------------------------------------ getFilters()

\* [...new Set(filters)]: first occurrences, in order
Dedupe(s) ==
    LET firsts == {i \in 1..Len(s) : \A j \in 1..(i - 1) : s[j] # s[i]}
        RECURSIVE pick(_)
        pick(i) == IF i > Len(s) THEN <<>>
                   ELSE IF i \in firsts THEN <<s[i]>> \o pick(i + 1)
                   ELSE pick(i + 1)
    IN  pick(1)

\* line 378
FiltersNavigate(p) ==
    /\ pc[p] = "ready"
    /\ call[p].caller = "getFilters"
    /\ IF page = 0
       THEN Throw(p, call[p], "Cannot read properties of null")
       ELSE Goto(p, [call[p] EXCEPT !.tgt = page], "filters_goto")
    /\ UNCHANGED <<clientVars, envVars, sessVars, postVars>>

\* lines 378-384
FiltersLoaded(p, E) ==
    /\ pc[p] = "filters_goto"
    /\ \E rejected \in E.rejects :
          IF rejected \/ Closed(call[p].tgt)
          THEN /\ Throw(p, call[p], "navigation failed")
               /\ doc' = doc
          ELSE /\ doc' = [doc EXCEPT ![call[p].tgt] = "results"]
               /\ IF page = 0
                  THEN Return(p, [call[p] EXCEPT !.waited = "null"],
                              [kind |-> "filters", filters |-> <<>>])
                  ELSE Goto(p, [call[p] EXCEPT !.tgt = page], "filters_wait")
    /\ UNCHANGED <<clientVars, running, nLaunched, sessVars, postVars>>

\* lines 383-389
FiltersWaited(p) ==
    /\ pc[p] = "filters_wait"
    /\ IF Closed(call[p].tgt)
       THEN Return(p, [call[p] EXCEPT !.waited = "closed"],
                   [kind |-> "filters", filters |-> <<>>])
       ELSE \/ Goto(p, [call[p] EXCEPT !.waited = "found"], "filters_settle")
            \/ Return(p, [call[p] EXCEPT !.waited = "timeout"],
                      [kind |-> "filters", filters |-> <<>>])
    /\ UNCHANGED <<clientVars, envVars, sessVars, postVars>>

\* line 392
FiltersSettled(p) ==
    /\ pc[p] = "filters_settle"
    /\ IF page = 0
       THEN Throw(p, call[p], "Cannot read properties of null")
       ELSE Goto(p, [call[p] EXCEPT !.tgt = page], "filters_extract")
    /\ UNCHANGED <<clientVars, envVars, sessVars, postVars>>

\* lines 392-414
FiltersExtracted(p, E) ==
    /\ pc[p] = "filters_extract"
    /\ \E filters \in E.filters :
          IF Closed(call[p].tgt)
          THEN Throw(p, call[p], "Target page, context or browser has been closed")
          ELSE Return(p, call[p], [kind |-> "filterInfo", availableFilters |-> Dedupe(filters)])
    /\ UNCHANGED <<clientVars, envVars, sessVars, postVars>>

\* ----------------- getProductDetails(), getProductsList(), setDestination()
\* lines 229-233: the detail URL is built and apiRequest entered
DetailsRequest(p) ==
    /\ pc[p] = "ready"
    /\ call[p].caller = "getProductDetails"
    /\ StartApi(p, call[p], "detail",
                DetailUrl(IF "productId" \in call[p].args.fields
                          THEN ToString(call[p].args.productId) ELSE "undefined"))
    /\ UNCHANGED <<clientVars, envVars, sessVars, postVars>>

\* lines 320-323: productIds.join(';') throws on undefined
ListRequest(p) ==
    /\ pc[p] = "ready"
    /\ call[p].caller = "getProductsList"
    /\ IF "productIds" \in call[p].args.fields
       THEN StartApi(p, call[p], "list", ListUrl(call[p].args.productIds))
       ELSE Throw(p, call[p], "Cannot read properties of undefined")
    /\ UNCHANGED <<clientVars, envVars, sessVars, postVars>>

\* lines 349-352
GeoRequest(p) ==
    /\ pc[p] = "ready"
    /\ call[p].caller = "setDestination"
    /\ StartApi(p, call[p], "geo", GeoUrl)
    /\ UNCHANGED <<clientVars, envVars, sessVars, postVars>>


\* ========================================================== protocol layer
\* TOOLS: the required fields of each tool's inputSchema
Required(name) ==
    CASE name = "wb_search"          -> {"query"}
      [] name = "wb_product_details" -> {"productId"}
      [] name = "wb_products_list"   -> {"productIds"}
      [] name = "wb_set_destination" -> {"address"}
      [] name = "wb_get_filters"     -> {"query"}
      [] OTHER                       -> {}

\* the WBClient method a tool name is routed to
MethodOf(name) ==
    CASE name = "wb_search"          -> "search"
      [] name = "wb_product_details" -> "getProductDetails"
      [] name = "wb_products_list"   -> "getProductsList"
      [] name = "wb_set_destination" -> "setDestination"
      [] name = "wb_get_filters"     -> "getFilters"

\* an error envelope that does not echo the id
ErrorEnvelopeNoId(id, code, message) ==
    [jsonrpc |-> "2.0", id |-> 0, error |-> [code |-> code, message |-> message]]

ResultEnvelope(id, result) == [jsonrpc |-> "2.0", id |-> id, result |-> result]
ErrorEnvelope(id, code, message) ==
    [jsonrpc |-> "2.0", id |-> id, error |-> [code |-> code, message |-> message]]

\* an unknown method reported as an internal error
NotFoundAsInternal(id) == ErrorEnvelope(id, InternalError, "Method not found")

\* lines 176-185: the default branch of the method switch
NotFound(id) == ErrorEnvelope(id, MethodNotFound, "Method not found")

\* { content: [{ type: 'text', text: JSON.stringify(result, null, 2) }] }
TextContent(result) == [content |-> <<[type |-> "text", text |-> result]>>]

\* index.js, lines 133-212: the object the stdio handler serialises when the
\* WBClient method of call c returned
StdioWrap(c) ==
    CASE c.fn = "search" ->
            [success |-> TRUE, hasQuery |-> "query" \in c.args.fields,
             count |-> Len(c.result.products), products |-> c.result.products]
      [] c.fn = "getProductDetails" ->
            [success |-> TRUE, product |-> c.result]
      [] c.fn = "getProductsList" ->
            [success |-> TRUE, count |-> Len(c.result.items), products |-> c.result.items]
      [] OTHER -> c.result

\* index.js: the tool result of the stdio handler on return
StdioReturn(c) == TextContent(StdioWrap(c))

\* http-server.js, lines 164-170: the result member of the HTTP envelope
HttpReturn(c) == TextContent(c.result)

\* the arguments objects a client may send for a tool
ArgsOf(name) ==
    CASE name = "wb_search" ->
            [fields : {{}, {"query"}}, limit : {0}, productId : {0}, productIds : {<<>>}]
            \cup [fields : {{"limit"}, {"query", "limit"}}, limit : LimitValues,
                  productId : {0}, productIds : {<<>>}]
      [] name = "wb_product_details" ->
            {NoArgs} \cup [fields : {{"productId"}}, limit : {0},
                           productId : ProductIds, productIds : {<<>>}]
      [] name = "wb_products_list" ->
            {NoArgs} \cup [fields : {{"productIds"}}, limit : {0}, productId : {0},
                           productIds : SeqsUpTo(ProductIds, MaxIds)]
      [] name = "wb_set_destination" ->
            {NoArgs, [NoArgs EXCEPT !.fields = {"address"}]}
      [] name = "wb_get_filters" ->
            {NoArgs, [NoArgs EXCEPT !.fields = {"query"}]}
      [] OTHER -> {NoArgs}

\* no arguments, or the required ones and nothing else
FewArgsOf(name) ==
    {NoArgs, [NoArgs EXCEPT !.fields = Required(name),
                            !.productId = IF name = "wb_product_details" THEN 7 ELSE 0,
                            !.productIds = IF name = "wb_products_list" THEN <<7>> ELSE <<>>]}

\* the required arguments and nothing else
PlainArgsOf(name) == FewArgsOf(name) \ {NoArgs}

\* the params of a tools/call request: missing, or a name with or without
\* an arguments object
ArgsFor(kind, name) ==
    CASE kind = "plain" -> PlainArgsOf(name)
      [] kind = "few"   -> FewArgsOf(name)
      [] OTHER          -> ArgsOf(name)

ParamsOf(names, kind) ==
    {[hasParams |-> FALSE, name |-> "", hasArgs |-> FALSE, args |-> NoArgs]} \cup
    {[hasParams |-> TRUE, name |-> n, hasArgs |-> FALSE, args |-> NoArgs] : n \in names} \cup
    UNION {[hasParams : {TRUE}, name : {n}, hasArgs : {TRUE}, args : ArgsFor(kind, n)] : n \in names}

\* the bodies of a POST: one request object or an array of them; the entry
\* at position i carries id i
Bodies(methods, n) ==
    {[i \in 1..Len(ms) |-> [method |-> ms[i], id |-> i]] : ms \in SeqsUpTo(methods, n)}

\* app.post('/mcp'), lines 200-207
PostMcp(p, bodies, headers) ==
    /\ pc[p] = "idle"
    /\ \E body \in bodies, sid \in headers :
          /\ requests' = [requests EXCEPT ![p] = body]
          /\ sessionId' = [sessionId EXCEPT ![p] = sid]
    /\ idx' = [idx EXCEPT ![p] = 1]
    /\ responses' = [responses EXCEPT ![p] = <<>>]
    /\ response' = [response EXCEPT ![p] = Null]
    /\ reply' = [reply EXCEPT ![p] = Null]
    /\ pc' = [pc EXCEPT ![p] = "loop"]
    /\ call' = [call EXCEPT ![p] = NoCall]
    /\ UNCHANGED <<clientVars, envVars, sessVars>>

\* the dispatcher calls wbClient.<method>(...): the method runs up to its
\* `await this.init()`
Invoke(p, id, params) ==
    /\ pc' = [pc EXCEPT ![p] = "init"]
    /\ call' = [call EXCEPT ![p] =
                  [NoCall EXCEPT !.hasParams = TRUE, !.name = params.name,
                                 !.hasArgs = TRUE, !.args = params.args,
                                 !.fn = MethodOf(params.name),
                                 !.caller = MethodOf(params.name),
                                 !.limit = EffectiveLimit(params.args)]]
    /\ response' = response

Settle(p, envelope) ==
    /\ pc' = [pc EXCEPT ![p] = "rpc_done"]
    /\ response' = [response EXCEPT ![p] = envelope]

\* handleJsonRpcRequest(request), lines 101-162 and 172-195, up to its first
\* await or to its return
HandleRequest(p, names, kind) ==
    /\ pc[p] = "loop"
    /\ idx[p] <= Len(requests[p])
    /\ LET request == requests[p][idx[p]]
           id == request.id
       IN  CASE request.method = "initialize" ->
                     /\ Settle(p, ResultEnvelope(id, [protocolVersion |-> "2025-03-26"]))
                     /\ call' = [call EXCEPT ![p] = NoCall]
                [] request.method = "tools/list" ->
                     /\ Settle(p, ResultEnvelope(id, [tools |-> ToolNames]))
                     /\ call' = [call EXCEPT ![p] = NoCall]
                [] request.method = "notifications/initialized" ->
                     /\ Settle(p, Null)
                     /\ call' = [call EXCEPT ![p] = NoCall]
                [] request.method = "tools/call" ->
                     \E params \in ParamsOf(names, kind) :
                        IF ~params.hasParams
                        THEN /\ Settle(p, ErrorEnvelope(id, InternalError,
                                          "Cannot destructure property"))
                             /\ call' = [call EXCEPT ![p] = NoCall]
                        ELSE IF params.name \notin ToolNames
                        THEN /\ Settle(p, ErrorEnvelope(id, InternalError, "Unknown tool"))
                             /\ call' = [call EXCEPT ![p] =
                                           [NoCall EXCEPT !.hasParams = TRUE,
                                                          !.name = params.name,
                                                          !.hasArgs = params.hasArgs]]
                        ELSE IF ~params.hasArgs
                        THEN /\ Settle(p, ErrorEnvelope(id, InternalError,
                                          "Cannot read properties of undefined"))
                             /\ call' = [call EXCEPT ![p] =
                                           [NoCall EXCEPT !.hasParams = TRUE,
                                                          !.name = params.name]]
                        ELSE Invoke(p, id, params)
                [] OTHER ->
                     /\ Settle(p, NotFound(id))
                     /\ call' = [call EXCEPT ![p] = NoCall]
    /\ UNCHANGED <<clientVars, envVars, sessVars, requests, sessionId, idx, responses, reply>>

\* the method's frame is gone; what the dispatcher was called with stays
Done(c) == [NoCall EXCEPT !.hasParams = c.hasParams, !.name = c.name,
                          !.hasArgs = c.hasArgs, !.args = c.args, !.fn = c.fn,
                          !.waited = c.waited]

\* lines 164-170: the awaited method resolved
DispatchReturn(p) ==
    /\ pc[p] = "returned"
    /\ Settle(p, ResultEnvelope(requests[p][idx[p]].id, HttpReturn(call[p])))
    /\ call' = [call EXCEPT ![p] = Done(@)]
    /\ UNCHANGED <<clientVars, envVars, sessVars, requests, sessionId, idx, responses,
                   reply>>

\* lines 186-195: the awaited method rejected
DispatchCatch(p) ==
    /\ pc[p] = "threw"
    /\ Settle(p, ErrorEnvelope(requests[p][idx[p]].id, InternalError, call[p].error))
    /\ call' = [call EXCEPT ![p] = Done(@)]
    /\ UNCHANGED <<clientVars, envVars, sessVars, requests, sessionId, idx, responses,
                   reply>>

\* every settled value is pushed, null included
PostPushAll(p) ==
    /\ pc[p] = "rpc_done"
    /\ responses' = [responses EXCEPT ![p] = Append(@, response[p])]
    /\ idx' = [idx EXCEPT ![p] = @ + 1]
    /\ pc' = [pc EXCEPT ![p] = "loop"]
    /\ UNCHANGED <<clientVars, envVars, sessVars, requests, sessionId, response, reply, call>>

\* lines 210-213: `await handleJsonRpcRequest(request)` resumed
PostPush(p) ==
    /\ pc[p] = "rpc_done"
    /\ responses' = [responses EXCEPT ![p] =
                        IF response[p] # Null THEN Append(@, response[p]) ELSE @]
    /\ idx' = [idx EXCEPT ![p] = @ + 1]
    /\ pc' = [pc EXCEPT ![p] = "loop"]
    /\ UNCHANGED <<clientVars, envVars, sessVars, requests, sessionId, response, reply, call>>

\* generateSessionId(): an identifier not handed out before
generateSessionId == nMinted + 1

\* only the first entry of the body is looked at
HasInitializeFirst(body) == Len(body) > 0 /\ body[1].method = "initialize"

\* line 217: requests.some(r => r.method === 'initialize')
HasInitialize(body) == \E i \in 1..Len(body) : body[i].method = "initialize"

\* lines 216-230: the loop is over; a session is minted and the reply sent
PostRespond(p) ==
    /\ pc[p] = "loop"
    /\ idx[p] > Len(requests[p])
    /\ LET mint == HasInitialize(requests[p]) /\ sessionId[p] = 0
           n    == Len(responses[p])
       IN  /\ mint => nMinted < MaxMint
           /\ sessions' = IF mint THEN sessions \cup {generateSessionId} ELSE sessions
           /\ nMinted' = IF mint THEN nMinted + 1 ELSE nMinted
           /\ reply' = [reply EXCEPT ![p] =
                 [ status  |-> IF n = 0 THEN 202 ELSE 200,
                   shape   |-> IF n = 0 THEN "empty" ELSE IF n = 1 THEN "object" ELSE "array",
                   body    |-> responses[p],
                   session |-> IF mint THEN generateSessionId ELSE 0 ]]
    /\ pc' = [pc EXCEPT ![p] = "replied"]
    /\ UNCHANGED <<clientVars, envVars, requests, sessionId, idx, responses, response, call,
                   term, getReply, streams, procVars>>


\* the reply is on the wire and the handler's frame is gone
PostClosed(p) ==
    /\ pc[p] = "replied"
    /\ pc' = [pc EXCEPT ![p] = "idle"]
    /\ requests' = [requests EXCEPT ![p] = <<>>]
    /\ sessionId' = [sessionId EXCEPT ![p] = 0]
    /\ idx' = [idx EXCEPT ![p] = 0]
    /\ responses' = [responses EXCEPT ![p] = <<>>]
    /\ response' = [response EXCEPT ![p] = Null]
    /\ reply' = [reply EXCEPT ![p] = Null]
    /\ call' = [call EXCEPT ![p] = NoCall]
    /\ UNCHANGED <<clientVars, envVars, sessVars>>

\* ------------------------------------------------ app.delete('/mcp')
\* the values of the Mcp-Session-Id header: 0 is no header, MaxMint + 1 an
\* identifier the server never minted
SessionHeaders == 0..(MaxMint + 1)

\* every termination is acknowledged
DeleteMcpAlways ==
    /\ \E sid \in SessionHeaders :
          /\ term' = [sid |-> sid, status |-> 200]
          /\ sessions' = sessions \ {sid}
    /\ UNCHANGED <<clientVars, envVars, nMinted, getReply, streams, procVars, postVars, pc, call>>

\* lines 261-271
DeleteMcp ==
    /\ \E sid \in SessionHeaders :
          IF sid # 0 /\ sid \in sessions
          THEN /\ sessions' = sessions \ {sid}
               /\ term' = [sid |-> sid, status |-> 200]
          ELSE /\ sessions' = sessions
               /\ term' = [sid |-> sid, status |-> 404]
    /\ UNCHANGED <<clientVars, envVars, nMinted, getReply, streams, procVars, postVars, pc, call>>

\* --------------------------------------------------- app.get('/mcp')
\* the channels no GET has taken yet
Fresh == {n \in 1..MaxStreams : streams[n].conn = "none"}

\* lines 234-257: 406 without text/event-stream in Accept; else the
\* interval is set and the close listener registered
GetMcp ==
    /\ \E accepts \in BOOLEAN :
          IF ~accepts
          THEN /\ getReply' = [status |-> 406, stream |-> 0]
               /\ streams' = streams
          ELSE /\ Fresh # {}
               /\ LET n == CHOOSE k \in Fresh : \A j \in Fresh : k <= j
                  IN  /\ streams' = [streams EXCEPT ![n] =
                                        [conn |-> "open", timer |-> TRUE, frames |-> 0]]
                      /\ getReply' = [status |-> 200, stream |-> n]
    /\ UNCHANGED <<clientVars, envVars, sessions, nMinted, term, procVars, postVars, pc, call>>

\* lines 250-252: the interval fired and its callback writes a frame
KeepaliveTick ==
    /\ \E n \in 1..MaxStreams :
          /\ streams[n].timer
          /\ streams[n].frames < MaxFrames
          /\ streams' = [streams EXCEPT ![n].frames = @ + 1]
    /\ UNCHANGED <<clientVars, envVars, sessions, nMinted, term, getReply, procVars, postVars, pc, call>>

\* the connection closes and the interval keeps running
SseCloseKeepsTimer ==
    /\ \E n \in 1..MaxStreams :
          /\ streams[n].conn = "open"
          /\ streams' = [streams EXCEPT ![n].conn = "closed"]
    /\ UNCHANGED <<clientVars, envVars, sessions, nMinted, term, getReply, procVars, postVars, pc, call>>

\* lines 254-257: the connection closed; the listener clears the interval
SseClose ==
    /\ \E n \in 1..MaxStreams :
          /\ streams[n].conn = "open"
          /\ streams' = [streams EXCEPT ![n].conn = "closed", ![n].timer = FALSE]
    /\ UNCHANGED <<clientVars, envVars, sessions, nMinted, term, getReply, procVars, postVars, pc, call>>

\* =========================================================== specifications
\* a step of the tool call or of the init() a handler is suspended in
InitStep(p, E) ==
    \/ InitEnter(p) \/ InitLaunched(p, E) \/ InitContext(p) \/ InitPage(p)
    \/ InitScript(p) \/ InitWarm(p, E) \/ InitSettled(p)

SearchStep(p, E) ==
    \/ SearchNavigate(p) \/ SearchLoaded(p, E) \/ SearchWaited(p)
    \/ SearchSettled(p) \/ SearchExtracted(p, E)

FiltersStep(p, E) ==
    \/ FiltersNavigate(p) \/ FiltersLoaded(p, E) \/ FiltersWaited(p)
    \/ FiltersSettled(p) \/ FiltersExtracted(p, E)

ApiStep(p, E) == ApiFetch(p) \/ ApiSettled(p, E)

ServerStep(p) ==
    \/ DispatchReturn(p) \/ DispatchCatch(p) \/ PostPush(p) \/ PostRespond(p)
    \/ PostClosed(p)

AllNames == ToolNames \cup {"wb_unknown"}

\* POSTs that overlap: each carries one well-formed tools/call of a
\* navigating tool or of wb_set_destination
Next ==
    \E p \in Handlers :
        \/ PostMcp(p, Bodies({"tools/call"}, 1) \ {<<>>}, {0})
        \/ HandleRequest(p, {"wb_search", "wb_get_filters", "wb_set_destination"},
                         "plain")
        \/ InitStep(p, SmallEnv)
        \/ SearchStep(p, SmallEnv)
        \/ FiltersStep(p, SmallEnv)
        \/ GeoRequest(p)
        \/ ApiStep(p, SmallEnv)
        \/ ServerStep(p)

Spec == Init /\ [][Next]_vars

\* one POST at a time, single or batched, of any methods
NextBatch ==
    \/ PostMcp("h1", Bodies(Methods, MaxBatch), {0, 1})
    \/ HandleRequest("h1", {"wb_search", "wb_set_destination", "wb_unknown"}, "few")
    \/ InitStep("h1", SmallEnv)
    \/ SearchStep("h1", SmallEnv)
    \/ GeoRequest("h1")
    \/ ApiStep("h1", SmallEnv)
    \/ ServerStep("h1")

SpecBatch == Init /\ [][NextBatch]_vars

\* one tools/call at a time, over all the arguments and answers
NextTool ==
    \/ PostMcp("h1", Bodies({"tools/call"}, 1) \ {<<>>}, {0})
    \/ HandleRequest("h1", AllNames, "all")
    \/ InitStep("h1", FullEnv)
    \/ SearchStep("h1", FullEnv)
    \/ FiltersStep("h1", FullEnv)
    \/ DetailsRequest("h1") \/ ListRequest("h1") \/ GeoRequest("h1")
    \/ ApiStep("h1", FullEnv)
    \/ ServerStep("h1")

SpecTool == Init /\ [][NextTool]_vars

\* sessions: POSTs of initialize or tools/list and DELETEs in any order
NextSession ==
    \/ PostMcp("h1", Bodies({"initialize", "tools/list"}, 1), {0, 1})
    \/ HandleRequest("h1", {}, "plain")
    \/ PostPush("h1") \/ PostRespond("h1") \/ PostClosed("h1")
    \/ DeleteMcp

SpecSession == Init /\ [][NextSession]_vars

\* push channels: GETs, interval ticks and connection closes in any order
NextStream == GetMcp \/ KeepaliveTick \/ SseClose

SpecStream == Init /\ [][NextStream]_vars

\* a step of a POST that carries one request of one of the methods; a
\* tools/call is well-formed and names one of the tools
ToolStep(p, methods, names, E) ==
    \/ PostMcp(p, Bodies(methods, 1) \ {<<>>}, {0})
    \/ HandleRequest(p, names, "plain")
    \/ InitStep(p, E) \/ SearchStep(p, E) \/ FiltersStep(p, E)
    \/ ListRequest(p) \/ GeoRequest(p)
    \/ ApiStep(p, E) \/ ServerStep(p)

\* the endpoints answer every request and the first mirror holds the
\* content descriptor
QuietEnv ==
    [SmallEnv EXCEPT !.card = {[description |-> "text", hasOptions |-> FALSE, options |-> <<>>]},
                     !.rejects = {FALSE}]

\* POSTs that overlap: each carries one well-formed tools/call of a tool
\* that does not navigate
NextQuiet == \E p \in Handlers :
    \/ PostMcp(p, Bodies({"tools/call"}, 1) \ {<<>>}, {0})
    \/ HandleRequest(p, {"wb_product_details", "wb_products_list", "wb_set_destination"},
                     "plain")
    \/ InitStep(p, QuietEnv)
    \/ DetailsRequest(p) \/ ListRequest(p) \/ GeoRequest(p)
    \/ ApiStep(p, QuietEnv) \/ ServerStep(p)

SpecQuiet == Init /\ [][NextQuiet]_vars

\* WBClient driven by tool calls and by a caller of close()
NextClient ==
    \/ ToolStep("h1", {"tools/call"}, ToolNames \ {"wb_product_details"}, SmallEnv)
    \/ CloseEnter("caller") \/ CloseDone

SpecClient == Init /\ [][NextClient]_vars

\* the server until SIGINT or SIGTERM ends it
NextSignal ==
    \/ ToolStep("h1", Methods, ToolNames, SmallEnv)
    \/ DetailsRequest("h1")
    \/ CloseEnter("signal") \/ CloseDone

SpecSignal == Init /\ [][NextSignal]_vars

\* ================================================================== claims
\* the request a handler is working on
Current(p) == requests[p][idx[p]]
\* a WBClient method called for it has not yet settled or is being caught
InCall(p) == pc[p] \notin {"idle", "loop", "rpc_done", "replied"}

\* ------------------------------------------------------------------ C1
\* between its page.goto and the end of its extraction (settle delay included)
InNavigation(p) ==
    pc[p] \in {"search_goto", "search_wait", "search_settle", "search_extract",
               "filters_goto", "filters_wait", "filters_settle", "filters_extract"}

\* C1: navigation-bearing operations are serialized on the shared page: no
\* two invocations are between their page.goto and the end of their
\* extraction at the same time.
C1_NavigationSerialized ==
    \A p, q \in Handlers : p # q => ~(InNavigation(p) /\ InNavigation(q))

\* ------------------------------------------------------------------ C2
\* the limit a wb_search request asks for: `args.limit || 20`
Requested(args) ==
    IF "limit" \notin args.fields \/ args.limit = 0 THEN DefaultLimit ELSE args.limit

SearchReturned(p) == pc[p] = "returned" /\ call[p].fn = "search"

\* C2: for every wb_search invocation the effective limit handed to search
\* is min(limit or 20, 100), and the returned list is no longer than that
\* effective limit and no longer than 100.  (A negative effective limit is
\* read in the claim's favour, as a bound of 0: no list is shorter.)
C2_LimitBoundsResult ==
    \A p \in Handlers :
        /\ InCall(p) /\ call[p].fn = "search" =>
              call[p].limit = Min(Requested(call[p].args), LimitCap)
        /\ SearchReturned(p) =>
              /\ Len(call[p].result.products) <= Max(call[p].limit, 0)
              /\ Len(call[p].result.products) <= LimitCap

\* ------------------------------------------------------------------ C3
\* a price/stock descriptor request (list or detail URL) is built in this step
Builds(p) ==
    /\ call'[p].url # call[p].url
    /\ call'[p].url.endpoint \in {"list", "detail"}

\* C3: the destination is unversioned shared state: every price/stock
\* descriptor request carries the zone stored at the moment it is built,
\* whoever stored it, the backfill request of a search already in flight
\* included.
C3_RequestCarriesStoredZone ==
    [][\A p \in Handlers : Builds(p) => call'[p].url.dest = dest /\ dest' = dest]_vars

\* a search built its backfill request with zone 77 while the
\* setDestination of another handler that stored it is still returning
C3_Witness ==
    \E p, q \in Handlers :
        /\ p # q
        /\ call[p].fn = "search" /\ pc[p] \in {"init", "ready", "fetch"}
        /\ call[p].url.endpoint = "list" /\ call[p].url.dest = "77"
        /\ pc[q] = "returned" /\ call[q].fn = "setDestination"
        /\ call[q].result.success

\* ------------------------------------------------------------------ C4
\* Number.prototype.toString of the zone codes
ZoneText(z) == IF z = 77 THEN "77" ELSE IF z = -1255987 THEN "-1255987" ELSE "?"

\* the geo lookup of setDestination ends in this step
LookupEnds(p) ==
    /\ call[p].caller = "geo"
    /\ pc[p] \in {"launch", "warmup", "fetch"}
    /\ pc'[p] \notin {"init", "ready", "launch", "newContext", "newPage",
                      "addInitScript", "warmup", "init_settle", "fetch"}

\* C4: setDestination: with a non-empty candidate list the active zone
\* becomes the string form of the last candidate and the call returns
\* success with the resolved address and the full list; when the lookup
\* fails or the list is empty or missing the zone is unchanged and the call
\* returns a failure result without throwing.
C4_SetDestination ==
    [][\A p \in Handlers : LookupEnds(p) =>
          LET c == call'[p]
              r == c.result
          IN  /\ pc'[p] = "returned"
              /\ IF c.data # Null /\ c.data.has /\ Len(c.data.destinations) > 0
                 THEN /\ r.success
                      /\ dest' = ZoneText(c.data.destinations[Len(c.data.destinations)])
                      /\ r.dest = dest'
                      /\ r.address = c.data.address
                      /\ r.destinations = c.data.destinations
                 ELSE /\ ~r.success
                      /\ dest' = dest]_vars

\* a lookup with two different candidates stored the second
C4_Witness ==
    \E p \in Handlers :
        /\ pc[p] = "returned" /\ call[p].fn = "setDestination"
        /\ call[p].result.success
        /\ Len(call[p].result.destinations) = 2
        /\ call[p].result.destinations[1] # call[p].result.destinations[2]
        /\ dest = ZoneText(call[p].result.destinations[2])

\* ------------------------------------------------------------------ C5
\* getProductDetails is past its price/stock request and has settled
DetailsSettled(p) ==
    /\ call[p].fn = "getProductDetails"
    /\ pc[p] \in {"returned", "threw"}
    /\ call[p].b >= 1

\* C5: getProductDetails fails with a not-found error whenever the
\* price/stock descriptor yields no item or cannot be fetched, whatever the
\* content descriptor; when it yields an item the call succeeds even if
\* every mirror probe fails, with a null description and no characteristics.
C5_DetailsExistenceCheck ==
    \A p \in Handlers : DetailsSettled(p) =>
        LET c == call[p]
            item == c.detailData # Null /\ c.detailData.has /\ c.detailData.products # <<>>
        IN  /\ item <=> pc[p] = "returned"
            /\ pc[p] = "threw" => c.error = "Product not found"
            /\ pc[p] = "returned" /\ c.cardData = Null =>
                  c.result.description = Null /\ c.result.characteristics = <<>>

\* all 36 probes failed and the call returned a record
C5_Witness ==
    \E p \in Handlers :
        /\ DetailsSettled(p) /\ pc[p] = "returned"
        /\ call[p].b = NumBaskets + 1 /\ call[p].cardData = Null
        /\ call[p].nFetch = NumBaskets + 1
        /\ call[p].result.description = Null

\* ------------------------------------------------------------------ C6
\* ids joined by ';', built from the last id backwards
RECURSIVE JoinBack(_)
JoinBack(ids) ==
    IF ids = <<>> THEN ""
    ELSE IF Len(ids) = 1 THEN ToString(ids[1])
    ELSE JoinBack(SubSeq(ids, 1, Len(ids) - 1)) \o ";" \o ToString(ids[Len(ids)])

\* the descriptor answered, and its answer carries no products
NoProducts(c) ==
    c.got = "json" /\ (c.data = Null \/ ~c.data.has \/ c.data.products = <<>>)

\* C6: getProductsList issues exactly one descriptor request, for all ids
\* joined by ';', and returns an empty list, not an error, whenever the
\* descriptor response carries no products.
C6_ListOneRequest ==
    \A p \in Handlers : InCall(p) /\ call[p].fn = "getProductsList" =>
        LET c == call[p]
        IN  /\ c.nFetch <= 1
            /\ c.url.endpoint \in {"none", "list"}
            /\ c.url.endpoint = "list" => c.url.nm = JoinBack(c.args.productIds)
            /\ pc[p] = "returned" => c.nFetch = 1 /\ c.url.endpoint = "list"
            /\ pc[p] \in {"returned", "threw"} /\ NoProducts(c) =>
                  pc[p] = "returned" /\ c.result.items = <<>>

\* ------------------------------------------------------------------ C7
EmptyOf(fn) == IF fn = "search" THEN [kind |-> "products", products |-> <<>>]
               ELSE [kind |-> "filters", filters |-> <<>>]

\* C7: when the wait for a result card times out, search returns an empty
\* list and getFilters returns {filters: []}; no error is raised, no failure
\* is reported to the caller, and no extraction or backfill request follows.
C7_TimeoutIsEmptyResult ==
    \A p \in Handlers : call[p].waited = "timeout" =>
        /\ pc[p] \in {"returned", "rpc_done", "loop", "replied"}
        /\ call[p].nFetch = 0
        /\ pc[p] = "returned" => call[p].result = EmptyOf(call[p].fn)
        /\ pc[p] = "rpc_done" =>
              response[p] = ResultEnvelope(Current(p).id, TextContent(EmptyOf(call[p].fn)))

\* a search whose wait timed out was answered with a result envelope
C7_Witness ==
    \E p \in Handlers :
        /\ call[p].waited = "timeout" /\ call[p].fn = "search"
        /\ pc[p] = "rpc_done"
        /\ "result" \in DOMAIN response[p]

\* ------------------------------------------------------------------ C8
MissesRequired(c) ==
    c.hasArgs /\ c.name \in ToolNames /\ ~(Required(c.name) \subseteq c.args.fields)

\* C8: an invocation whose arguments lack a field the tool's schema marks
\* as required is reported as a caller error and makes no Extraction Engine
\* or Locale State call.
C8_MissingRequiredRejected ==
    \A p \in Handlers : MissesRequired(call[p]) =>
        /\ call[p].fn = "none"
        /\ pc[p] = "rpc_done" => "error" \in DOMAIN response[p]

\* ------------------------------------------------------------------ C9
WellFormed(e, id) ==
    /\ e # Null
    /\ \/ DOMAIN e = {"jsonrpc", "id", "result"}
       \/ DOMAIN e = {"jsonrpc", "id", "error"}
    /\ e.jsonrpc = "2.0"
    /\ e.id = id

\* C9: every tools/call request, whatever its tool name, params and
\* arguments and whether the acquisition call succeeds or throws, is
\* answered with exactly one well-formed envelope carrying the request's id
\* and exactly one of result or error.
C9_OneEnvelopePerCall ==
    \A p \in Handlers :
        /\ pc[p] = "rpc_done" /\ Current(p).method = "tools/call" =>
              WellFormed(response[p], Current(p).id)
        /\ pc[p] = "replied" /\ Len(requests[p]) = 1 /\ requests[p][1].method = "tools/call" =>
              /\ reply[p].status = 200
              /\ Len(reply[p].body) = 1
              /\ WellFormed(reply[p].body[1], requests[p][1].id)

\* a WBClient method threw and the reply is an error envelope
C9_Witness ==
    \E p \in Handlers :
        /\ pc[p] = "replied" /\ call[p].fn = "getProductDetails"
        /\ Len(reply[p].body) = 1
        /\ "error" \in DOMAIN reply[p].body[1]

\* ------------------------------------------------------------------ C10
NotNotification(r) == r.method # "notifications/initialized"
\* the entries handled so far that are owed a response
Owed(p) == SelectSeq(SubSeq(requests[p], 1, idx[p] - 1), NotNotification)

\* C10: a batch is processed strictly in order, an error in one entry does
\* not stop the later ones, and the responses are, in the same order, those
\* of the entries that are not one-way notifications.
C10_BatchInOrder ==
    \A p \in Handlers : pc[p] # "idle" =>
        /\ idx[p] \in 1..(Len(requests[p]) + 1)
        /\ Len(responses[p]) = Len(Owed(p))
        /\ \A i \in 1..Len(responses[p]) : WellFormed(responses[p][i], Owed(p)[i].id)
        /\ pc[p] = "replied" =>
              /\ idx[p] = Len(requests[p]) + 1
              /\ reply[p].body = responses[p]

\* a batch of two whose first entry failed and whose second succeeded
C10_Witness ==
    \E p \in Handlers :
        /\ pc[p] = "replied" /\ Len(requests[p]) = 2
        /\ Len(reply[p].body) = 2
        /\ "error" \in DOMAIN reply[p].body[1] /\ reply[p].body[1].id = 1
        /\ "result" \in DOMAIN reply[p].body[2] /\ reply[p].body[2].id = 2

\* ------------------------------------------------------------------ C11
\* the POST handler sends its reply in this step
Replies(p) == pc[p] = "loop" /\ pc'[p] = "replied"

\* C11: a POST that contains an initialize request and carries no session
\* header creates exactly one new session record and surfaces its identifier
\* in the response; any other POST creates none.  The batch
\* [initialize, tools/list] without a header yields an array of two
\* responses and a new identifier.
C11_SessionMinting ==
    [][/\ \A p \in Handlers : Replies(p) =>
             LET body == requests[p]
                 asks == \E i \in 1..Len(body) : body[i].method = "initialize"
                 sid  == reply'[p].session
             IN  /\ IF asks /\ sessionId[p] = 0
                    THEN /\ sid # 0 /\ sid \notin sessions
                         /\ sessions' = sessions \cup {sid}
                    ELSE /\ sid = 0
                         /\ sessions' = sessions
                 /\ (Len(body) = 2 /\ body[1].method = "initialize"
                        /\ body[2].method = "tools/list" /\ sessionId[p] = 0) =>
                       /\ reply'[p].shape = "array"
                       /\ Len(reply'[p].body) = 2
       /\ (sessions' \ sessions # {}) => \E p \in Handlers : Replies(p)]_vars

\* the batch [tools/list, initialize] without a header was answered with a
\* new identifier that is in the store
C11_Witness ==
    \E p \in Handlers :
        /\ pc[p] = "replied" /\ sessionId[p] = 0
        /\ Len(requests[p]) = 2
        /\ requests[p][1].method = "tools/list"
        /\ requests[p][2].method = "initialize"
        /\ Len(reply[p].body) = 2
        /\ reply[p].session # 0 /\ reply[p].session \in sessions

\* ------------------------------------------------------------------ C12
\* C12: termination with an identifier that is in the session store removes
\* exactly that record and reports success; with an absent, unknown or
\* already terminated identifier it reports not-found and leaves the store
\* unchanged.
C12_Termination ==
    [][/\ term' # term =>
             IF term'.sid # 0 /\ term'.sid \in sessions
             THEN sessions' = sessions \ {term'.sid} /\ term'.status = 200
             ELSE sessions' = sessions /\ term'.status = 404
       /\ (sessions \ sessions' # {}) => term' # term]_vars

\* identifier 1 was minted and terminated, and terminating it again was
\* answered 404
C12_Witness ==
    /\ nMinted >= 1 /\ 1 \notin sessions
    /\ term = [sid |-> 1, status |-> 404]

\* ------------------------------------------------------------------ C17
\* C17: a push channel is opened only for a GET that accepts
\* text/event-stream, any other GET is rejected and starts no timer; while
\* the channel is open every interval tick writes a keepalive frame, and
\* once the connection has closed no frame is written to it again.
C17_PushChannel ==
    [][/\ getReply' # getReply /\ getReply'.status = 406 => streams' = streams
       /\ \A n \in 1..MaxStreams :
             /\ streams[n].conn = "none" /\ streams'[n].conn # "none" =>
                   /\ getReply' = [status |-> 200, stream |-> n]
                   /\ streams'[n] = [conn |-> "open", timer |-> TRUE, frames |-> 0]
             /\ streams'[n].frames # streams[n].frames =>
                   /\ streams[n].conn = "open"
                   /\ streams'[n].frames = streams[n].frames + 1
             /\ streams[n].conn = "open" => streams[n].timer
             /\ streams[n].conn = "closed" =>
                   streams'[n] = streams[n] /\ ~streams[n].timer]_vars

\* a channel that wrote a frame while open has been closed, and its timer
\* is gone
C17_Witness ==
    \E n \in 1..MaxStreams :
        /\ streams[n].conn = "closed"
        /\ streams[n].frames = 1
        /\ ~streams[n].timer

\* ------------------------------------------------------------------ C13
\* C13: the tool contract is the same in both transport modes: for every
\* tool and argument set the stdio dispatcher and the HTTP dispatcher return
\* the same text-content payload when the client method returns.
C13_SameToolContract ==
    \A p \in Handlers : pc[p] = "returned" =>
        StdioReturn(call[p]) = HttpReturn(call[p])

\* ------------------------------------------------------------------ C14
\* C14: whenever a price/stock descriptor fetch fails during a tool call
\* (the backfill request of search, the detail request of
\* getProductDetails, the list request of getProductsList), the tool call
\* does not return a value to the dispatcher: it is reported as a failure.
C14_FetchFailurePropagates ==
    \A p \in Handlers : call[p].failed => pc[p] # "returned"

\* ------------------------------------------------------------------ C15
\* a price of a record, back in kopeks
Kop(price) == 100 * price.units + price.cents

\* d is the integer nearest to 100 * (1 - final / basic), a tie going up
Nearest(d, basic, final) ==
    /\ 2 * basic * d - basic <= 200 * (basic - final)
    /\ 200 * (basic - final) < 2 * basic * d + basic

\* C15: in every detail record returned by getProductDetails, discount is
\* round((1 - priceFinal / priceBasic) * 100) when both prices are present
\* and null when either is null.
C15_DiscountRounded ==
    \A p \in Handlers : pc[p] = "returned" /\ call[p].fn = "getProductDetails" =>
        LET r == call[p].result
        IN  IF r.priceBasic # Null /\ r.priceFinal # Null
            THEN /\ r.discount # Null
                 /\ Nearest(r.discount.value, Kop(r.priceBasic), Kop(r.priceFinal))
            ELSE r.discount = Null

\* a record with prices 2.00 and 1.99 was returned: the half percent is
\* rounded up to 1
C15_Witness ==
    \E p \in Handlers :
        /\ pc[p] = "returned" /\ call[p].fn = "getProductDetails"
        /\ call[p].result.priceBasic = [units |-> 2, cents |-> 0]
        /\ call[p].result.priceFinal = [units |-> 1, cents |-> 99]
        /\ call[p].result.discount = [value |-> 1]

\* ------------------------------------------------------------------ C16
KnownMethods == {"initialize", "tools/list", "tools/call", "notifications/initialized"}

\* handler p takes up a request of an unknown method in this step
TakesUnknown(p) ==
    /\ pc[p] = "loop" /\ idx[p] <= Len(requests[p])
    /\ Current(p).method \notin KnownMethods
    /\ pc'[p] # "loop"

\* C16: a request whose method is none of initialize, tools/list,
\* tools/call, notifications/initialized is answered with a method-not-found
\* error envelope (code -32601) carrying the request's id, makes no WBClient
\* call, and changes neither the session store nor the destination.
C16_MethodNotFound ==
    [][\A p \in Handlers : TakesUnknown(p) =>
          /\ pc'[p] = "rpc_done"
          /\ DOMAIN response'[p] = {"jsonrpc", "id", "error"}
          /\ response'[p].id = Current(p).id
          /\ response'[p].error.code = -32601
          /\ call'[p].fn = "none"
          /\ UNCHANGED <<sessions, dest, browser, nLaunched>>]_vars

\* a batch whose second entry has an unknown method was answered, the
\* second response being the -32601 envelope with id 2
C16_Witness ==
    \E p \in Handlers :
        /\ pc[p] = "replied" /\ Len(requests[p]) = 2
        /\ requests[p][2].method \notin KnownMethods
        /\ Len(reply[p].body) = 2
        /\ reply[p].body[2] = [jsonrpc |-> "2.0", id |-> 2,
                               error |-> [code |-> -32601, message |-> "Method not found"]]

\* ------------------------------------------------------------------ C18
\* handler p calls init() in this step, after an init() has completed
CallsInitAgain(p) == pc[p] = "init" /\ isInitialized /\ pc'[p] # "init"

\* C18: init() is idempotent: once an init() call has completed
\* successfully, every later init() call, made by any operation, returns at
\* once: it launches no browser, opens no context or page and performs no
\* warm-up navigation.
C18_InitIdempotent ==
    [][\A p \in Handlers : CallsInitAgain(p) =>
          /\ pc'[p] = "ready"
          /\ call'[p] = call[p]
          /\ UNCHANGED <<browser, context, page, isInitialized, running, nLaunched, doc>>]_vars

\* a handler is past init() without having launched a browser itself, on a
\* client that another call initialized
C18_Witness ==
    \E p \in Handlers :
        /\ pc[p] = "ready" /\ call[p].mine = 0
        /\ isInitialized /\ nLaunched = 1 /\ browser = 1

\* ------------------------------------------------------------------ C19
\* C19: at most one browser instance is ever launched and live per
\* WBClient, under every interleaving of tool invocations.
C19_OneBrowser == Cardinality(running) <= 1

\* ------------------------------------------------------------------ C20
\* some handler is inside init(), between the guard and its completion
InInit(p) ==
    pc[p] \in {"launch", "newContext", "newPage", "addInitScript", "warmup", "init_settle"}

\* C20: if the launch or the warm-up navigation fails during init(), the
\* session is left uninitialized with no partial state: no browser, context
\* or page reference is kept and no launched browser is left running.
C20_NoPartialState ==
    (~isInitialized /\ \A p \in Handlers : ~InInit(p)) =>
        /\ browser = 0 /\ context = 0 /\ page = 0
        /\ running = {}

\* ------------------------------------------------------------------ C21
\* the step in which a close() that had a browser finishes
CloseCompletes == closer.pc = "closing" /\ closer'.pc = "idle"

\* the step in which close() is called while this.browser is null
CloseWithoutBrowser == closer'.n # closer.n /\ browser = 0

\* C21: when close() finishes, the browser it was called on is no longer
\* running and browser, context and page are null and isInitialized is
\* false; a close() called with no browser (never initialized, or right
\* after another close()) changes nothing and is over at once; and an init()
\* entered while isInitialized is false launches a browser
C21_Close ==
    [][ /\ CloseCompletes =>
             /\ closer.tgt \notin running'
             /\ browser' = 0 /\ context' = 0 /\ page' = 0
             /\ isInitialized' = FALSE
        /\ CloseWithoutBrowser =>
             /\ UNCHANGED <<clientVars, envVars>>
             /\ closer'.pc = "idle"
        /\ \A p \in Handlers :
             (pc[p] = "init" /\ ~isInitialized /\ pc'[p] # "init") => pc'[p] = "launch"
      ]_vars

\* a close() finished on browser 1, a second close() found no browser, and
\* the tool call after them initialized the client again on browser 2
C21_Witness ==
    /\ closer.n = 2 /\ closer.pc = "idle" /\ closer.tgt = 0
    /\ isInitialized /\ browser = 2 /\ context = 2 /\ page = 2
    /\ running = {2}

\* ------------------------------------------------------------------ C22
\* the host names of the content mirrors, in the order they are tried
HostNames ==
    << "01", "02", "03", "04", "05", "06", "07", "08", "09", "10", "11", "12",
       "13", "14", "15", "16", "17", "18", "19", "20", "21", "22", "23", "24",
       "25", "26", "27", "28", "29", "30", "31", "32", "33", "34", "35", "36" >>

\* getProductDetails was called with a product id
ProbesFor(c) == c.fn = "getProductDetails" /\ "productId" \in c.args.fields

\* C22: the content-descriptor lookup of getProductDetails tries the hosts
\* 01..36 one after the other in ascending order, each with the path
\* vol floor(id / 100000), part floor(id / 1000) and the id, makes one request
\* per host tried, goes to the next host only while no descriptor came back,
\* never makes more than 36 requests, and when no host returns a descriptor
\* the method settles by its existence check alone, not by an error of the
\* loop
C22_BasketProbe ==
    [][ \A p \in Handlers :
          LET c == call[p]
              d == call'[p]
              id == d.args.productId
          IN  ProbesFor(d) /\ pc'[p] \notin {"rpc_done", "replied", "idle"} =>
                /\ d.caller = "basket" /\ pc'[p] \notin {"returned", "threw"} =>
                     /\ d.b \in 1..36
                     /\ d.url = [ endpoint |-> "card", basket |-> HostNames[d.b],
                                  vol |-> ToString(id \div 100000),
                                  part |-> ToString(id \div 1000),
                                  nm |-> ToString(id) ]
                /\ d.b # c.b => d.b = c.b + 1 /\ c.cardData = Null
                /\ d.b >= 1 => d.nFetch - 1 <= d.b /\ d.nFetch - 1 <= 36
                /\ d.cardData # Null => d.b <= 36 /\ d.nFetch - 1 = d.b
                /\ pc'[p] \in {"returned", "threw"} /\ d.b >= 1 /\ d.cardData = Null =>
                     d.b = 37
                /\ d.b > 36 =>
                     /\ d.b = 37 /\ d.nFetch - 1 = 36
                     /\ pc'[p] = "returned" <=> HasProduct(d)
      ]_vars

\* host 02 returned the descriptor of product 123456 after host 01 had not,
\* and the method returned after two probes
C22_Witness ==
    \E p \in Handlers :
        /\ ProbesFor(call[p]) /\ pc[p] = "returned"
        /\ call[p].args.productId = 123456
        /\ call[p].b = 2 /\ call[p].cardData # Null
        /\ call[p].url.basket = "02" /\ call[p].url.vol = "1" /\ call[p].url.part = "123"
        /\ call[p].nFetch = 3

\* ------------------------------------------------------------------ C23
\* the positions of the extracted cards that have an id and no DOM price
Unpriced(cards) == {i \in 1..Len(cards) : cards[i].price = Null /\ cards[i].id # 0}

\* the ids at the positions S of the cards, in card order
RECURSIVE IdsAt(_, _, _)
IdsAt(cards, S, i) ==
    IF i > Len(cards) THEN <<>>
    ELSE IF i \in S THEN <<cards[i].id>> \o IdsAt(cards, S, i + 1)
    ELSE IdsAt(cards, S, i + 1)

\* the entries of the backfill answer that price the id
PricedBy(data, id) ==
    IF data = Null \/ ~data.has THEN {}
    ELSE {k \in 1..Len(data.products) :
             data.products[k].id = id /\ data.products[k].product # 0}

\* C23: a search that returned made at most one backfill request, made it
\* only if some extracted card has an id and no DOM price, and named in it
\* exactly the ids of those cards; each such card whose id the answer prices
\* has price = product / 100 of a pricing entry; a card with a DOM price, and
\* a card the answer does not price, is returned as extracted
C23_PriceBackfill ==
    \A p \in Handlers : SearchReturned(p) =>
        LET c     == call[p]
            cards == c.products
            out   == c.result.products
            U     == Unpriced(cards)
        IN  /\ c.nFetch <= 1
            /\ c.nFetch = 1 => U # {}
            /\ c.nFetch = 1 =>
                 /\ c.url.endpoint = "list"
                 /\ c.url.nm = JoinIds(IdsAt(cards, U, 1))
            /\ Len(out) = Len(cards)
            /\ \A i \in 1..Len(cards) :
                 LET E == IF c.got = "json" THEN PricedBy(c.data, cards[i].id) ELSE {}
                 IN  IF i \in U /\ E # {}
                     THEN /\ out[i].id = cards[i].id
                          /\ \E k \in E :
                                out[i].price =
                                    [ units |-> c.data.products[k].product \div 100,
                                      cents |-> c.data.products[k].product % 100 ]
                     ELSE out[i] = cards[i]

\* of two extracted cards the first had the DOM price 7 and the second none;
\* one request named the second card's id and priced it at 12.50
C23_Witness ==
    \E p \in Handlers :
        /\ SearchReturned(p)
        /\ Len(call[p].products) = 2
        /\ call[p].products[1] = [id |-> 1, price |-> [units |-> 7, cents |-> 0]]
        /\ call[p].products[2] = [id |-> 2, price |-> Null]
        /\ call[p].nFetch = 1 /\ call[p].url.nm = "2"
        /\ call[p].result.products[1].price = [units |-> 7, cents |-> 0]
        /\ call[p].result.products[2].price = [units |-> 12, cents |-> 50]

\* ------------------------------------------------------------------ C24
\* the step in which the geo lookup of a wb_set_destination call returned
\* a candidate list and the call returns success
DestinationSet(p) ==
    /\ call[p].name = "wb_set_destination" /\ call[p].fn = "setDestination"
    /\ pc[p] = "fetch" /\ pc'[p] = "returned"
    /\ call'[p].result.success

\* C24: the zone is the default '-1255987' when the process starts, and a
\* step changes it only if in that step a setDestination call returns
\* success; no step of search, getProductDetails, getProductsList,
\* getFilters, init, close, of a failed setDestination or of another
\* protocol method changes it
C24_ZoneWrittenBySetDestination ==
    /\ dest = "-1255987"
    /\ [][dest' # dest => \E p \in Handlers : DestinationSet(p)]_vars

\* a setDestination stored zone 77, and the zone is still 77 after close()
\* completed and the process exited
C24_Witness ==
    /\ dest = "77"
    /\ exited /\ closer.tgt = 1 /\ closer.pc = "idle"
    /\ browser = 0

\* ------------------------------------------------------------------ C25
\* the call a handler runs is one of the operations that do not navigate
NonNavigating(p) ==
    call[p].fn \in {"getProductsList", "getProductDetails", "setDestination"}

\* the handler takes this step
Moves(p) == pc'[p] # pc[p] \/ call'[p] # call[p]

\* C25: once the session is initialized, no step of getProductsList,
\* getProductDetails or setDestination, nor of a descriptor request they
\* make, navigates the shared page or replaces it: the page reference and
\* every document are the same after the step, whatever the other handler
\* is doing
C25_NoNavigation ==
    [][\A p \in Handlers :
          isInitialized /\ NonNavigating(p) /\ Moves(p) =>
              page' = page /\ doc' = doc
      ]_vars

\* ------------------------------------------------------------------ C26
\* C26: the process exits only after the close() its signal handler awaits
\* is over, and when it has exited no browser it launched is still running,
\* whatever init() or tool call was in flight when the signal came
C26_ExitLeavesNoBrowser ==
    exited => closer.pc = "idle" /\ closer.by = "signal" /\ running = {}

\* ------------------------------------------------------------------ C27
\* C27: whenever isInitialized is true, browser, context and page are set
\* and the page held has been through the warm-up navigation (it shows a
\* loaded document, not the blank one it was created with)
C27_InitializedIsReady ==
    isInitialized =>
        /\ browser # 0 /\ context # 0 /\ page # 0
        /\ doc[page] \notin {"none", "blank"}

====
